---- MODULE Spec2Model ----
(***************************************************************************)
(* Model of graph/cytoscape/cytoscape.go: NewConfig converts a traffic map *)
(* into the CytoscapeJS configuration (buildConfig, the optional grouping  *)
(* pass, the two sorts, the Config value).                                 *)
(*                                                                         *)
(* Go strings that the code orders (the sort keys, the md5 tokens) or      *)
(* builds (Sprintf) are tuples of byte values, "" being <<>>.  Strings the *)
(* code only tests for equality (node types, graph types, metadata keys,   *)
(* dynamic type names) are TLA+ strings.  float64 rates are integers; a    *)
(* quotient is kept as a numerator and a denominator.                      *)
(***************************************************************************)
EXTENDS Integers, Sequences, FiniteSets, TLC

VARIABLES heap, trafficMap, o, pc, visited, nodes, edges, appBox, boxDone,
          result, prev, run

vars == <<heap, trafficMap, o, pc, visited, nodes, edges, appBox, boxDone,
          result, prev, run>>

\* ------------------------------------------------------------------ bounds

\* Largest number of entries of the traffic map in the grouping inputs.
MaxNodes == 3
\* Largest rate value (requests or bytes per second) in the telemetry inputs.
MaxRate == 2
\* Longest edge list of a node in the structural inputs.
MaxEdges == 2

\* ----------------------------------------------------------------- strings

\* Go's < on strings: bytewise lexicographic.
RECURSIVE StrLess(_, _)
StrLess(s, t) ==
  IF t = <<>> THEN FALSE
  ELSE IF s = <<>> THEN TRUE
  ELSE IF Head(s) # Head(t) THEN Head(s) < Head(t)
  ELSE StrLess(Tail(s), Tail(t))

Reverse(s) == [i \in 1..Len(s) |-> s[Len(s) + 1 - i]]

\* hex(md5(s)).  The digest is abstracted as collision-free on the ids of a
\* graph: an injective map whose order on tokens is unrelated to the order
\* on the ids (the reversed bytes behind a "#").
Md5Hex(s) == <<35>> \o Reverse(s)

nodeHash(id) == Md5Hex(id)

\* Sprintf("%s.%s.%s", from, to, protocol), hashed.
edgeHash(from, to, protocol) == Md5Hex(from \o <<46>> \o to \o <<46>> \o protocol)

\* Sprintf("box_%s_%s", namespace, app): the key of an app box.
BoxKey(namespace, app) == <<98, 111, 120, 95>> \o namespace \o <<95>> \o app

\* The decimal digits of a natural number.
RECURSIVE Digits(_)
Digits(n) == IF n < 10 THEN <<48 + n>> ELSE Digits(n \div 10) \o <<48 + (n % 10)>>

RECURSIVE Pow10(_)
Pow10(k) == IF k = 0 THEN 1 ELSE 10 * Pow10(k - 1)

\* The last k decimal digits of n, zero padded.
RECURSIVE FracDigits(_, _)
FracDigits(n, k) ==
  IF k = 0 THEN <<>> ELSE FracDigits(n \div 10, k - 1) \o <<48 + (n % 10)>>

\* Sprintf("%.<prec>f", num / den) for den # 0: round to nearest, ties to
\* even, the sign kept ("-0.0").
FormatFixed(num, den, prec) ==
  LET neg == (num < 0) # (den < 0)
      a   == IF num < 0 THEN -num ELSE num
      d   == IF den < 0 THEN -den ELSE den
      p   == Pow10(prec)
      q0  == (a * p) \div d
      r   == (a * p) % d
      q   == IF 2 * r > d \/ (2 * r = d /\ q0 % 2 = 1) THEN q0 + 1 ELSE q0
  IN  (IF neg /\ a # 0 THEN <<45>> ELSE <<>>)
        \o Digits(q \div p)
        \o (IF prec = 0 THEN <<>> ELSE <<46>> \o FracDigits(q % p, prec))

\* ---------------------------------------------------------------- metadata

\* A value of the metadata bag (map[string]interface{}): its dynamic type
\* and, by type, its float64, bool, string or map[string]bool content.
Float(x)   == [t |-> "float64", f |-> x, b |-> FALSE, s |-> <<>>, m |-> {}]
Bool(x)    == [t |-> "bool", f |-> 0, b |-> x, s |-> <<>>, m |-> {}]
Str(x)     == [t |-> "string", f |-> 0, b |-> FALSE, s |-> x, m |-> {}]
SvcMap(x)  == [t |-> "map[string]bool", f |-> 0, b |-> FALSE, s |-> <<>>, m |-> x]
NilValue   == [t |-> "nil", f |-> 0, b |-> FALSE, s |-> <<>>, m |-> {}]

\* The metadata bag with no key.
NoMetadata == [k \in {} |-> NilValue]

\* val, ok := md[k]; val.(T) panics unless val holds a T.
AssertPanics(md, k, type) == k \in DOMAIN md /\ md[k].t # type

\* getRate: md[k].(float64) when the key is there, else 0.0.
getRate(md, k) == IF k \in DOMAIN md THEN md[k].f ELSE 0

getRatePanics(md, k) == AssertPanics(md, k, "float64")

\* if val, ok := md[k]; ok { field = val.(bool) }
BoolField(md, k) == IF k \in DOMAIN md THEN md[k].b ELSE FALSE

\* if val, ok := md[k]; ok { field = val.(string) }
StringField(md, k) == IF k \in DOMAIN md THEN md[k].s ELSE <<>>

\* RateField with the guard rate >= 0.0.
RateFieldFromZero(rate) == IF rate >= 0 THEN FormatFixed(rate, 1, 2) ELSE <<>>

\* Sprintf("%.2f", rate) when rate > 0.0, else the field stays "".
RateField(rate) == IF rate > 0 THEN FormatFixed(rate, 1, 2) ELSE <<>>

\* ------------------------------------------------------------ output types

NodeData0 ==
  [Id |-> <<>>, Parent |-> <<>>, NodeType |-> "", Namespace |-> <<>>,
   Workload |-> <<>>, App |-> <<>>, Version |-> <<>>, Service |-> <<>>,
   DestServices |-> {}, HttpIn |-> <<>>, HttpIn3xx |-> <<>>, HttpIn4xx |-> <<>>,
   HttpIn5xx |-> <<>>, HttpOut |-> <<>>, TcpIn |-> <<>>, TcpOut |-> <<>>,
   HasCB |-> FALSE, HasMissingSC |-> FALSE, HasVS |-> FALSE, IsDead |-> FALSE,
   IsGroup |-> <<>>, IsInaccessible |-> FALSE, IsMisconfigured |-> <<>>,
   IsOutside |-> FALSE, IsRoot |-> FALSE, IsServiceEntry |-> <<>>,
   IsUnused |-> FALSE]

EdgeData0 ==
  [Id |-> <<>>, Source |-> <<>>, Target |-> <<>>, Http |-> <<>>, Http3xx |-> <<>>,
   Http4xx |-> <<>>, Http5xx |-> <<>>, HttpPercentErr |-> <<>>,
   HttpPercentReq |-> <<>>, ResponseTime |-> <<>>, IsMTLS |-> FALSE,
   IsUnused |-> FALSE, Tcp |-> <<>>]

\* ---------------------------------------------------------- addNodeTelemetry

addNodeTelemetry(s, nd) ==
  LET httpIn    == getRate(s.Metadata, "httpIn")
      httpIn3xx == getRate(s.Metadata, "httpIn3xx")
      httpIn4xx == getRate(s.Metadata, "httpIn4xx")
      httpIn5xx == getRate(s.Metadata, "httpIn5xx")
      httpOut   == getRate(s.Metadata, "httpOut")
      tcpIn     == getRate(s.Metadata, "tcpIn")
      tcpOut    == getRate(s.Metadata, "tcpOut")
  IN  [nd EXCEPT
         !.HttpIn    = RateField(httpIn),
         !.HttpIn3xx = IF httpIn > 0 THEN RateField(httpIn3xx) ELSE <<>>,
         !.HttpIn4xx = IF httpIn > 0 THEN RateField(httpIn4xx) ELSE <<>>,
         !.HttpIn5xx = IF httpIn > 0 THEN RateField(httpIn5xx) ELSE <<>>,
         !.HttpOut   = RateField(httpOut),
         !.TcpIn     = RateField(tcpIn),
         !.TcpOut    = RateField(tcpOut)]

\* The type assertions addNodeTelemetry reaches: the status-class rates are
\* read only under httpIn > 0.0.
addNodeTelemetryPanics(s) ==
  \/ getRatePanics(s.Metadata, "httpIn")
  \/ /\ getRate(s.Metadata, "httpIn") > 0
     /\ \E k \in {"httpIn3xx", "httpIn4xx", "httpIn5xx"} : getRatePanics(s.Metadata, k)
  \/ \E k \in {"httpOut", "tcpIn", "tcpOut"} : getRatePanics(s.Metadata, k)

\* ---------------------------------------------------------- addEdgeTelemetry

\* PercentReqBelow100 with the guard httpPercentReq <= 100.0.
PercentReqUpTo100(http, httpOut) ==
  IF httpOut = 0 THEN FALSE
  ELSE IF httpOut > 0 THEN http * 100 <= 100 * httpOut
  ELSE http * 100 >= 100 * httpOut

\* http / getRate(e.Source.Metadata, "httpOut") * 100.0 < 100.0.  A zero
\* httpOut makes the quotient +Inf (http > 0.0 here), which is not below 100.
PercentReqBelow100(http, httpOut) ==
  IF httpOut = 0 THEN FALSE
  ELSE IF httpOut > 0 THEN http * 100 < 100 * httpOut
  ELSE http * 100 > 100 * httpOut

\* e is the edge, src the node e.Source points to.
addEdgeTelemetry(ed, e, src) ==
  LET http    == getRate(e.Metadata, "http")
      http3xx == getRate(e.Metadata, "http3xx")
      http4xx == getRate(e.Metadata, "http4xx")
      http5xx == getRate(e.Metadata, "http5xx")
      httpErr == http4xx + http5xx
      httpOut == getRate(src.Metadata, "httpOut")
      tcp     == getRate(e.Metadata, "tcp")
      rated   ==
        IF http > 0
        THEN [ed EXCEPT
                !.Http    = FormatFixed(http, 1, 2),
                !.Http3xx = RateField(http3xx),
                !.Http4xx = RateField(http4xx),
                !.Http5xx = RateField(http5xx),
                !.HttpPercentErr =
                    IF httpErr * 100 > 0 THEN FormatFixed(httpErr * 100, http, 1)
                    ELSE <<>>,
                !.ResponseTime =
                    IF "responseTime" \in DOMAIN e.Metadata
                    THEN FormatFixed(e.Metadata["responseTime"].f, 1, 0)
                    ELSE <<>>,
                !.HttpPercentReq =
                    IF PercentReqBelow100(http, httpOut)
                    THEN FormatFixed(http * 100, httpOut, 1)
                    ELSE <<>>]
        ELSE [ed EXCEPT !.IsUnused = BoolField(src.Metadata, "isUnused")]
  IN  [rated EXCEPT
         !.IsMTLS = BoolField(e.Metadata, "isMTLS"),
         !.Tcp    = RateField(tcp)]

addEdgeTelemetryPanics(e, src) ==
  \/ getRatePanics(e.Metadata, "http")
  \/ /\ getRate(e.Metadata, "http") > 0
     /\ \/ \E k \in {"http3xx", "http4xx", "http5xx", "responseTime"} :
             getRatePanics(e.Metadata, k)
        \/ getRatePanics(src.Metadata, "httpOut")
  \/ /\ ~(getRate(e.Metadata, "http") > 0)
     /\ AssertPanics(src.Metadata, "isUnused", "bool")
  \/ AssertPanics(e.Metadata, "isMTLS", "bool")
  \/ getRatePanics(e.Metadata, "tcp")

\* -------------------------------------------------------------- buildConfig

\* The values of the options and graph packages the code compares with.
GroupByApp == <<97, 112, 112>>
GroupByVersion == <<118, 101, 114, 115, 105, 111, 110>>
GraphTypeService == "service"
GraphTypeVersionedApp == "versionedApp"
NodeTypeApp == "app"
\* The app label of a node whose app is not known: "unknown".
UnknownApp == <<117, 110, 107, 110, 111, 119, 110>>

NodeBoolKeys ==
  {"isDead", "isRoot", "isUnused", "isInaccessible", "hasCB", "hasVS",
   "hasMissingSC", "isOutside"}

NodeStringKeys == {"isMisconfigured", "isServiceEntry"}

\* NodeId from the ID field of the node, not from its key.
NodeIdFromNodeID(id, n) == nodeHash(n.ID)

\* nodeId := nodeHash(id), id being the key of the traffic map entry.
NodeId(id, n) == nodeHash(id)

\* The NodeData of traffic map entry id -> n (the loop body up to the append).
BuildNodeData(id, n) ==
  LET nd == [NodeData0 EXCEPT
               !.Id        = NodeId(id, n),
               !.NodeType  = n.NodeType,
               !.Namespace = n.Namespace,
               !.Workload  = n.Workload,
               !.App       = n.App,
               !.Version   = n.Version,
               !.Service   = n.Service]
      md == n.Metadata
  IN  [addNodeTelemetry(n, nd) EXCEPT
         !.IsDead          = BoolField(md, "isDead"),
         !.IsRoot          = BoolField(md, "isRoot"),
         !.IsUnused        = BoolField(md, "isUnused"),
         !.IsInaccessible  = BoolField(md, "isInaccessible"),
         !.HasCB           = BoolField(md, "hasCB"),
         !.HasVS           = BoolField(md, "hasVS"),
         !.HasMissingSC    = BoolField(md, "hasMissingSC"),
         !.IsMisconfigured = StringField(md, "isMisconfigured"),
         !.IsOutside       = BoolField(md, "isOutside"),
         !.DestServices    = IF "destServices" \in DOMAIN md
                             THEN md["destServices"].m ELSE {},
         !.IsServiceEntry  = StringField(md, "isServiceEntry")]

BuildNodePanics(n) ==
  \/ addNodeTelemetryPanics(n)
  \/ \E k \in NodeBoolKeys : AssertPanics(n.Metadata, k, "bool")
  \/ \E k \in NodeStringKeys : AssertPanics(n.Metadata, k, "string")
  \/ AssertPanics(n.Metadata, "destServices", "map[string]bool")

\* if e.Metadata["protocol"] != nil { protocol = e.Metadata["protocol"].(string) }
EdgeProtocol(e) ==
  IF "protocol" \in DOMAIN e.Metadata /\ e.Metadata["protocol"].t # "nil"
  THEN e.Metadata["protocol"].s ELSE <<>>

EdgeProtocolPanics(e) ==
  /\ "protocol" \in DOMAIN e.Metadata
  /\ e.Metadata["protocol"].t \notin {"nil", "string"}

\* The EdgeData of edge e of node n (the inner loop body); h is the heap of
\* graph nodes the edge's Source and Dest point into.
BuildEdgeData(n, e, h) ==
  LET sourceIdHash == nodeHash(n.ID)
      destIdHash   == nodeHash(h[e.Dest].ID)
      ed == [EdgeData0 EXCEPT
               !.Id     = edgeHash(sourceIdHash, destIdHash, EdgeProtocol(e)),
               !.Source = sourceIdHash,
               !.Target = destIdHash]
  IN  addEdgeTelemetry(ed, e, h[e.Source])

BuildEdgePanics(e, h) ==
  EdgeProtocolPanics(e) \/ addEdgeTelemetryPanics(e, h[e.Source])

\* One iteration of "for id, n := range trafficMap": the node and its edges
\* are appended, unless a type assertion panics on the way.
BuildNode(id) ==
  /\ pc = "buildConfig"
  /\ id \in DOMAIN trafficMap \ visited
  /\ LET n == heap[trafficMap[id]]
     IN  IF \/ BuildNodePanics(n)
            \/ \E i \in 1..Len(n.Edges) : BuildEdgePanics(n.Edges[i], heap)
         THEN /\ pc' = "panic"
              /\ UNCHANGED <<visited, nodes, edges>>
         ELSE /\ nodes' = Append(nodes, BuildNodeData(id, n))
              /\ edges' = edges \o
                   [i \in 1..Len(n.Edges) |-> BuildEdgeData(n, n.Edges[i], heap)]
              /\ visited' = visited \cup {id}
              /\ pc' = "buildConfig"
  /\ UNCHANGED <<heap, trafficMap, o, appBox, boxDone, result, prev, run>>

\* ------------------------------------------------------------------ grouping

\* The indices, in slice order, of the nodes a grouping pass collects under
\* key k: appBox[k] = append(appBox[k], nw.Data) for each node it selects.
RECURSIVE BoxMembers(_, _, _, _)
BoxMembers(ns, k, byVersion, i) ==
  IF i > Len(ns) THEN <<>>
  ELSE LET nd == ns[i]
           selected == IF byVersion THEN nd.NodeType = NodeTypeApp
                       ELSE nd.App # UnknownApp /\ nd.App # <<>>
       IN  (IF selected /\ BoxKey(nd.Namespace, nd.App) = k THEN <<i>> ELSE <<>>)
             \o BoxMembers(ns, k, byVersion, i + 1)

\* groupByVersion: the boxes of the nodes of type app.
groupByVersion(ns) ==
  LET keys == {BoxKey(ns[i].Namespace, ns[i].App) :
                 i \in {j \in 1..Len(ns) : ns[j].NodeType = NodeTypeApp}}
  IN  [k \in keys |-> BoxMembers(ns, k, TRUE, 1)]

\* groupByApp: the boxes of the nodes with a known app.
groupByApp(ns) ==
  LET keys == {BoxKey(ns[i].Namespace, ns[i].App) :
                 i \in {j \in 1..Len(ns) :
                          ns[j].App # UnknownApp /\ ns[j].App # <<>>}}
  IN  [k \in keys |-> BoxMembers(ns, k, FALSE, 1)]

NoBoxes == [k \in {} |-> <<>>]

\* SelectBoxes without the test of the graph type in the app case.
SelectBoxesAnyGraphType(ns, opts) ==
  IF opts.GroupBy = GroupByApp THEN groupByApp(ns)
  ELSE IF opts.GroupBy = GroupByVersion
  THEN IF opts.GraphType = GraphTypeVersionedApp THEN groupByVersion(ns) ELSE NoBoxes
  ELSE NoBoxes

\* switch o.GroupBy: which grouping pass runs, if any.
SelectBoxes(ns, opts) ==
  IF opts.GroupBy = GroupByApp
  THEN IF opts.GraphType # GraphTypeService THEN groupByApp(ns) ELSE NoBoxes
  ELSE IF opts.GroupBy = GroupByVersion
  THEN IF opts.GraphType = GraphTypeVersionedApp THEN groupByVersion(ns) ELSE NoBoxes
  ELSE NoBoxes

\* buildConfig has returned: NewConfig picks the grouping pass, which fills
\* its appBox map.
StartGrouping ==
  /\ pc = "buildConfig"
  /\ visited = DOMAIN trafficMap
  /\ appBox' = SelectBoxes(nodes, o)
  /\ boxDone' = {}
  /\ pc' = IF DOMAIN appBox' = {} THEN "sort" ELSE "generateGroupCompoundNodes"
  /\ UNCHANGED <<heap, trafficMap, o, visited, nodes, edges, result, prev, run>>

RECURSIVE OrFlags(_, _, _)
OrFlags(ns, members, flag) ==
  IF members = <<>> THEN FALSE
  ELSE ns[Head(members)][flag] \/ OrFlags(ns, Tail(members), flag)

\* The compound node of box k.
CompoundNodeData(ns, k, members, groupBy) ==
  [NodeData0 EXCEPT
     !.Id             = nodeHash(k),
     !.NodeType       = NodeTypeApp,
     !.Namespace      = ns[members[1]].Namespace,
     !.App            = ns[members[1]].App,
     !.Version        = <<>>,
     !.IsGroup        = groupBy,
     !.HasMissingSC   = OrFlags(ns, members, "HasMissingSC"),
     !.IsInaccessible = OrFlags(ns, members, "IsInaccessible"),
     !.IsOutside      = OrFlags(ns, members, "IsOutside")]

\* n.Parent = nodeId for each member n.
SetParents(ns, members, nodeId) ==
  [i \in 1..Len(ns) |->
     IF \E j \in 1..Len(members) : members[j] = i
     THEN [ns[i] EXCEPT !.Parent = nodeId] ELSE ns[i]]

\* NeedsCompound with the guard len(members) > 0.
NeedsCompoundForOne(members) == Len(members) > 0

\* Whether a box gets a compound node: len(members) > 1.
NeedsCompound(members) == Len(members) > 1

\* One iteration of "for k, members := range appBox".
GenerateCompound(k) ==
  /\ pc = "generateGroupCompoundNodes"
  /\ k \in DOMAIN appBox \ boxDone
  /\ LET members == appBox[k]
     IN  nodes' = IF NeedsCompound(members)
                  THEN Append(SetParents(nodes, members, nodeHash(k)),
                              CompoundNodeData(nodes, k, members, o.GroupBy))
                  ELSE nodes
  /\ boxDone' = boxDone \cup {k}
  /\ pc' = IF boxDone' = DOMAIN appBox THEN "sort" ELSE pc
  /\ UNCHANGED <<heap, trafficMap, o, visited, edges, appBox, result, prev, run>>

\* ---------------------------------------------------------------- the sorts

\* The less function of the node sort.
nodeLess(a, b) ==
  IF a.Namespace # b.Namespace THEN StrLess(a.Namespace, b.Namespace)
  ELSE IF a.IsGroup # b.IsGroup THEN StrLess(b.IsGroup, a.IsGroup)
  ELSE IF a.App # b.App THEN StrLess(a.App, b.App)
  ELSE IF a.Version # b.Version THEN StrLess(a.Version, b.Version)
  ELSE IF a.Service # b.Service THEN StrLess(a.Service, b.Service)
  ELSE StrLess(a.Workload, b.Workload)

\* The less function of the edge sort.
edgeLess(a, b) ==
  IF StrLess(a.Source, b.Source) THEN TRUE
  ELSE IF StrLess(b.Source, a.Source) THEN FALSE
  ELSE StrLess(a.Target, b.Target)

\* sort.Slice is not stable: it may leave the elements of s (those at the
\* indices rem) in any order in which none is less than one before it.
RECURSIVE SortedNodes(_, _)
SortedNodes(s, rem) ==
  IF rem = {} THEN {<<>>}
  ELSE UNION {{<<s[i]>> \o t : t \in SortedNodes(s, rem \ {i})} :
                i \in {i \in rem : \A j \in rem : ~nodeLess(s[j], s[i])}}

RECURSIVE SortedEdges(_, _)
SortedEdges(s, rem) ==
  IF rem = {} THEN {<<>>}
  ELSE UNION {{<<s[i]>> \o t : t \in SortedEdges(s, rem \ {i})} :
                i \in {i \in rem : \A j \in rem : ~edgeLess(s[j], s[i])}}

\* int64(o.Duration.Seconds()): the conversion truncates toward zero.  The
\* duration is counted here in milliseconds (a time.Duration counts
\* nanoseconds).
DurationSeconds(d) == IF d >= 0 THEN d \div 1000 ELSE -((-d) \div 1000)

NewConfigResult(ns, es, opts) ==
  [Duration  |-> DurationSeconds(opts.Duration),
   Timestamp |-> opts.QueryTime,
   GraphType |-> opts.GraphType,
   Elements  |-> [Nodes |-> ns, Edges |-> es]]

\* The value of result while no invocation has returned.
NoResult ==
  [Duration |-> 0, Timestamp |-> 0, GraphType |-> "",
   Elements |-> [Nodes |-> <<>>, Edges |-> <<>>]]

\* Both sorts and the return of NewConfig.
SortAndReturn ==
  /\ pc = "sort"
  /\ \E ns \in SortedNodes(nodes, 1..Len(nodes)) :
       \E es \in SortedEdges(edges, 1..Len(edges)) :
         /\ nodes' = ns
         /\ edges' = es
         /\ result' = NewConfigResult(ns, es, o)
  /\ pc' = "done"
  /\ appBox' = NoBoxes
  /\ boxDone' = {}
  /\ UNCHANGED <<heap, trafficMap, o, visited, prev, run>>

\* The caller invokes NewConfig once more on the same traffic map and
\* options, keeping the first document.
Reinvoke ==
  /\ pc = "done"
  /\ run = "first"
  /\ run' = "second"
  /\ prev' = result
  /\ result' = NoResult
  /\ pc' = "buildConfig"
  /\ visited' = {}
  /\ nodes' = <<>>
  /\ edges' = <<>>
  /\ UNCHANGED <<heap, trafficMap, o, appBox, boxDone>>

\* ------------------------------------------------------------------- inputs

\* The traffic map key (and node ID) of the i-th node: "a", "b", ...
KeyOf(i) == <<96 + i>>

GraphNode(id, type, namespace, workload, app, version, service, md, es) ==
  [ID |-> id, NodeType |-> type, Namespace |-> namespace, Workload |-> workload,
   App |-> app, Version |-> version, Service |-> service, Metadata |-> md,
   Edges |-> es]

GraphEdge(source, dest, md) == [Source |-> source, Dest |-> dest, Metadata |-> md]

Options(groupBy, graphType) ==
  [GroupBy |-> groupBy, GraphType |-> graphType, QueryTime |-> 1523364075,
   Duration |-> 600500]

Input(h, tm, opts) == [heap |-> h, trafficMap |-> tm, o |-> opts]

\* A metadata bag from key -> value-or-Absent.
Absent == [t |-> "absent", f |-> 0, b |-> FALSE, s |-> <<>>, m |-> {}]
Bag(g) == [k \in {x \in DOMAIN g : g[x].t # "absent"} |-> g[k]]
One(k, v) == [x \in {k} |-> v]

sA == <<97>>
sAB == <<97, 95, 98>>
sBC == <<98, 95, 99>>
sC == <<99>>
sV1 == <<118, 49>>
sV2 == <<118, 50>>
sW == <<119>>
sS == <<115>>
sHttp == <<104, 116, 116, 112>>
sTcp == <<116, 99, 112>>
sLabels == <<108, 97, 98, 101, 108, 115>>

\* Node shapes of the grouping inputs.  "a"/"b_c" and "a_b"/"c" differ in
\* namespace and app; the workload node shares namespace and app with the
\* first shape.
NodeShapes ==
  << [type |-> "app", namespace |-> sA, app |-> sBC, version |-> sV1,
      workload |-> <<>>, service |-> <<>>, md |-> NoMetadata],
     [type |-> "app", namespace |-> sAB, app |-> sC, version |-> sV1,
      workload |-> <<>>, service |-> <<>>, md |-> NoMetadata],
     [type |-> "workload", namespace |-> sA, app |-> sBC, version |-> sV2,
      workload |-> sW, service |-> <<>>, md |-> One("hasMissingSC", Bool(TRUE))],
     [type |-> "app", namespace |-> sA, app |-> UnknownApp, version |-> <<>>,
      workload |-> <<>>, service |-> <<>>, md |-> NoMetadata],
     [type |-> "service", namespace |-> sA, app |-> <<>>, version |-> <<>>,
      workload |-> <<>>, service |-> sS, md |-> NoMetadata],
     [type |-> "app", namespace |-> sA, app |-> sC, version |-> sV1,
      workload |-> <<>>, service |-> <<>>, md |-> NoMetadata] >>

\* The assignments of shapes to the nodes "a", "b", ... of a graph of n
\* nodes, one per multiset of shapes: the keys are iterated in every order,
\* so which key carries which shape of the multiset changes nothing but
\* the tokens.
ShapeChoices(n) ==
  {f \in [1..n -> 1..Len(NodeShapes)] : \A i \in 1..n : i = 1 \/ f[i - 1] <= f[i]}

GroupingNode(i, shape) ==
  GraphNode(KeyOf(i), shape.type, shape.namespace, shape.workload, shape.app,
            shape.version, shape.service, shape.md, <<>>)

\* Up to MaxNodes nodes, no edges, under every grouping option.
GroupingInputs ==
  { Input([i \in 1..x[1] |-> GroupingNode(i, NodeShapes[x[2][i]])],
          [k \in {KeyOf(i) : i \in 1..x[1]} |-> k[1] - 96],
          Options(x[3], x[4])) :
      x \in UNION {{<<n, f, g, t>> : f \in ShapeChoices(n),
                                     g \in {<<>>, GroupByApp, GroupByVersion},
                                     t \in {GraphTypeService, GraphTypeVersionedApp}} :
                   n \in 0..MaxNodes} }

\* A rate key: absent, or a float64 in 0 .. MaxRate.
RateOpt == {Absent} \cup {Float(x) : x \in 0..MaxRate}

\* One node "a" with edge to node "b": srcMd and edgeMd are the metadata of
\* "a" and of the edge.
OneEdgeInput(srcMd, edgeMd) ==
  Input(<<GraphNode(KeyOf(1), "workload", sA, sW, sC, sV1, <<>>, srcMd,
                    <<GraphEdge(1, 2, edgeMd)>>),
          GraphNode(KeyOf(2), "workload", sA, sW, sBC, sV1, <<>>, NoMetadata, <<>>)>>,
        [k \in {KeyOf(1), KeyOf(2)} |-> k[1] - 96],
        Options(<<>>, "workload"))

EdgeRateInputs ==
  { OneEdgeInput(Bag(One("httpOut", out)),
                 Bag([k \in {"http", "http4xx", "http5xx"} |->
                        IF k = "http" THEN h ELSE IF k = "http4xx" THEN h4 ELSE h5])) :
      <<out, h, h4, h5>> \in (RateOpt \cup {Float(-1)}) \X RateOpt \X RateOpt \X RateOpt }

\* Single metadata entries of an edge, well typed and not.
EdgeExtras ==
  { <<"http", Str(sA)>>, <<"http3xx", Float(1)>>, <<"http3xx", Str(sA)>>,
    <<"http4xx", Bool(TRUE)>>, <<"http5xx", NilValue>>,
    <<"tcp", Float(1)>>, <<"tcp", Float(0)>>, <<"tcp", Str(sA)>>,
    <<"responseTime", Float(5)>>, <<"responseTime", Str(sA)>>,
    <<"protocol", Str(sHttp)>>, <<"protocol", NilValue>>, <<"protocol", Float(1)>>,
    <<"isMTLS", Bool(TRUE)>>, <<"isMTLS", Str(sA)>>, <<"none", Absent>> }

SourceExtras ==
  { <<"isUnused", Bool(TRUE)>>, <<"isUnused", Float(1)>>, <<"httpOut", Str(sA)>>,
    <<"none", Absent>> }

EdgeExtraInputs ==
  { OneEdgeInput(
      Bag([k \in {"httpOut", sx[1]} |-> IF k = sx[1] THEN sx[2] ELSE out]),
      Bag([k \in {"http", ex[1]} |-> IF k = ex[1] THEN ex[2] ELSE h])) :
      <<out, h, sx, ex>> \in
        {Absent, Float(1)} \X {Absent, Float(1)} \X SourceExtras \X EdgeExtras }

\* Single metadata entries of a node, well typed and not.
NodeExtras ==
  {<<k, v>> : k \in {"httpIn", "httpOut", "tcpIn", "tcpOut"},
              v \in {Float(1), Float(0), Str(sA)}}
    \cup {<<k, v>> : k \in NodeBoolKeys, v \in {Bool(TRUE), Bool(FALSE), Float(1)}}
    \cup {<<k, v>> : k \in NodeStringKeys, v \in {Str(sLabels), Bool(TRUE)}}
    \cup { <<"destServices", SvcMap({sS})>>, <<"destServices", Str(sS)>>,
           <<"hasCB", NilValue>>, <<"none", Absent>> }

\* One node: httpIn, one status-class rate and one more entry.
NodeRateInputs ==
  { Input(<<GraphNode(KeyOf(1), "workload", sA, sW, sC, sV1, <<>>,
                      Bag([k \in {"httpIn", sub, nx[1]} |->
                             IF k = nx[1] THEN nx[2]
                             ELSE IF k = "httpIn" THEN h ELSE hs]),
                      <<>>)>>,
          [k \in {KeyOf(1)} |-> 1],
          Options(<<>>, "workload")) :
      <<h, sub, hs, nx>> \in
        RateOpt \X {"httpIn3xx", "httpIn4xx", "httpIn5xx"}
                \X (RateOpt \cup {Str(sA)}) \X NodeExtras }

\* Edge lists of up to MaxEdges edges from node 1 to node 1, node 2 or node 3,
\* with the protocol there or not.
EdgeLists ==
  UNION {[1..n -> {GraphEdge(1, d, md) :
                     d \in 1..3,
                     md \in {NoMetadata, One("protocol", Str(sHttp)),
                             One("protocol", Str(sTcp))}}] : n \in 0..MaxEdges}

\* Nodes "a" and "b" in the traffic map; node 3 is a graph node that is not
\* an entry of it.  With mismatch, the ID of "a" is not its key.
StructureInputs ==
  { Input(<<GraphNode(IF mismatch THEN sAB ELSE KeyOf(1), "workload", sA, sW, sC,
                      sV1, <<>>, NoMetadata, es),
            GraphNode(KeyOf(2), "workload", sA, sW, sBC, sV1, <<>>, NoMetadata,
                      IF back THEN <<GraphEdge(2, 1, NoMetadata)>> ELSE <<>>),
            GraphNode(KeyOf(3), "service", sA, <<>>, <<>>, <<>>, sS, NoMetadata, <<>>)>>,
          [k \in {KeyOf(1), KeyOf(2)} |-> k[1] - 96],
          Options(<<>>, "workload")) :
      <<es, mismatch, back>> \in EdgeLists \X BOOLEAN \X BOOLEAN }

Inputs ==
  GroupingInputs \cup EdgeRateInputs \cup EdgeExtraInputs \cup NodeRateInputs
    \cup StructureInputs

\* ------------------------------------------------------------ specification

Init ==
  /\ \E in \in Inputs :
       /\ heap = in.heap
       /\ trafficMap = in.trafficMap
       /\ o = in.o
  /\ pc = "buildConfig"
  /\ visited = {}
  /\ nodes = <<>>
  /\ edges = <<>>
  /\ appBox = NoBoxes
  /\ boxDone = {}
  /\ result = NoResult
  /\ prev = NoResult
  /\ run = "first"

Next ==
  \/ \E id \in DOMAIN trafficMap : BuildNode(id)
  \/ StartGrouping
  \/ \E k \in DOMAIN appBox : GenerateCompound(k)
  \/ SortAndReturn
  \/ Reinvoke

Spec == Init /\ [][Next]_vars

\* =================================================================== claims

Range(s) == {s[i] : i \in 1..Len(s)}

Present(field) == field # <<>>

IsGroupNode(nd) == nd.IsGroup # <<>>

\* NewConfig has returned; result is the document.
Returned == pc = "done"

OutNodes == result.Elements.Nodes
OutEdges == result.Elements.Edges

\* The float64 under key k, 0 when the key is absent or holds another type.
RateOf(md, k) == IF k \in DOMAIN md /\ md[k].t = "float64" THEN md[k].f ELSE 0

\* The graph node of traffic map entry k.
Entry(k) == heap[trafficMap[k]]

RECURSIVE SumEdges(_)
SumEdges(keys) ==
  IF keys = {} THEN 0
  ELSE LET k == CHOOSE x \in keys : TRUE
       IN  Len(Entry(k).Edges) + SumEdges(keys \ {k})

\* s and t hold the same records, each as many times.
SameRecords(s, t) ==
  /\ Len(s) = Len(t)
  /\ \A x \in Range(s) \cup Range(t) :
       Cardinality({i \in 1..Len(s) : s[i] = x})
         = Cardinality({i \in 1..Len(t) : t[i] = x})

\* The sorts reorder the records and change none: the records of the
\* returned document are those buildConfig and the grouping pass left.
SortKeepsRecords ==
  (pc = "sort" /\ pc' = "done") =>
     /\ SameRecords(nodes, OutNodes')
     /\ SameRecords(edges, OutEdges')

\* A grouping pass ran in this invocation.
GroupingApplied ==
  \/ o.GroupBy = GroupByApp /\ o.GraphType # GraphTypeService
  \/ o.GroupBy = GroupByVersion /\ o.GraphType = GraphTypeVersionedApp

\* nd is a node the grouping pass that ran collects into a box.
Candidate(nd) ==
  /\ ~IsGroupNode(nd)
  /\ IF o.GroupBy = GroupByVersion THEN nd.NodeType = "app"
     ELSE nd.App # <<>> /\ nd.App # UnknownApp

\* The positions of the candidates of key k in the returned nodes.
KeyMembers(k) ==
  {i \in 1..Len(OutNodes) :
     Candidate(OutNodes[i]) /\ BoxKey(OutNodes[i].Namespace, OutNodes[i].App) = k}

\* The positions of the group nodes of key k in the returned nodes.
KeyGroups(k) ==
  {g \in 1..Len(OutNodes) :
     IsGroupNode(OutNodes[g]) /\ OutNodes[g].Id = nodeHash(k)}

\* C1: when a grouping pass ran, a candidate key with one member has no
\* group node and its member has no Parent; a key with two or more members
\* has exactly one group node, and the Parent of each member is its Id.
C1_GroupingCardinality ==
  (Returned /\ GroupingApplied) =>
    \A i \in 1..Len(OutNodes) :
      Candidate(OutNodes[i]) =>
        LET k == BoxKey(OutNodes[i].Namespace, OutNodes[i].App)
        IN  IF Cardinality(KeyMembers(k)) = 1
            THEN KeyGroups(k) = {} /\ OutNodes[i].Parent = <<>>
            ELSE /\ Cardinality(KeyGroups(k)) = 1
                 /\ \A g \in KeyGroups(k) : OutNodes[i].Parent = OutNodes[g].Id

\* A returned document with a key of one member and a key of several.
C1_Witness ==
  /\ Returned
  /\ GroupingApplied
  /\ \E i, j \in 1..Len(OutNodes) :
       /\ Candidate(OutNodes[i])
       /\ Candidate(OutNodes[j])
       /\ Cardinality(KeyMembers(BoxKey(OutNodes[i].Namespace, OutNodes[i].App))) = 1
       /\ OutNodes[i].Parent = <<>>
       /\ Cardinality(KeyMembers(BoxKey(OutNodes[j].Namespace, OutNodes[j].App))) > 1
       /\ OutNodes[j].Parent # <<>>

\* C2: in the returned nodes, a node with a Parent comes after the group
\* node with that Id, and within a namespace every group node comes before
\* every node that is no group.
C2_ParentsFirst ==
  Returned =>
    /\ \A i \in 1..Len(OutNodes) :
         Present(OutNodes[i].Parent) =>
           \E g \in 1..(i - 1) :
             IsGroupNode(OutNodes[g]) /\ OutNodes[g].Id = OutNodes[i].Parent
    /\ \A i, j \in 1..Len(OutNodes) :
         ( /\ OutNodes[i].Namespace = OutNodes[j].Namespace
           /\ IsGroupNode(OutNodes[i])
           /\ ~IsGroupNode(OutNodes[j]) ) => i < j

\* C3: the second invocation on the same traffic map and options returns
\* the document the first returned.
C3_Deterministic == (Returned /\ run = "second") => result = prev

\* Two or more returned nodes that share namespace and a known app lie in
\* one group node marked "app".
AppGroupsMade ==
  \A i, j \in 1..Len(OutNodes) :
    ( /\ i # j
      /\ ~IsGroupNode(OutNodes[i])
      /\ ~IsGroupNode(OutNodes[j])
      /\ OutNodes[i].Namespace = OutNodes[j].Namespace
      /\ OutNodes[i].App = OutNodes[j].App
      /\ OutNodes[i].App # <<>>
      /\ OutNodes[i].App # UnknownApp ) =>
        \E g \in 1..Len(OutNodes) :
          /\ OutNodes[g].IsGroup = GroupByApp
          /\ OutNodes[i].Parent = OutNodes[g].Id
          /\ OutNodes[j].Parent = OutNodes[g].Id

\* C4 as claimed: with group-by = app the app groups are made whatever the
\* graph type.
C4_AppGroupingAnyGraphType ==
  (Returned /\ o.GroupBy = GroupByApp) => AppGroupsMade

\* C4 as amended: with group-by = app the app groups are made for every
\* graph type but "service"; for the service graph no group node is made
\* and no node gets a Parent.
C4_AppGroupingUnlessService ==
  (Returned /\ o.GroupBy = GroupByApp) =>
    IF o.GraphType # GraphTypeService THEN AppGroupsMade
    ELSE \A i \in 1..Len(OutNodes) :
           ~IsGroupNode(OutNodes[i]) /\ OutNodes[i].Parent = <<>>

\* Group-by = app on a graph that is no service graph, two nodes in an app
\* group.
C4_Witness ==
  /\ Returned
  /\ o.GroupBy = GroupByApp
  /\ o.GraphType # GraphTypeService
  /\ \E i, j, g \in 1..Len(OutNodes) :
       /\ i # j
       /\ OutNodes[g].IsGroup = GroupByApp
       /\ OutNodes[i].Parent = OutNodes[g].Id
       /\ OutNodes[j].Parent = OutNodes[g].Id
       /\ OutNodes[i].Namespace = OutNodes[j].Namespace
       /\ OutNodes[i].App = OutNodes[j].App

\* C5: a metadata value of an unexpected dynamic type never aborts the
\* transformation.
C5_NeverAborts == pc # "panic"

\* The entries of the traffic map a step of buildConfig has just visited
\* (one, or none), the node it appended and the i-th edge it appended.
BuiltIds == visited' \ visited
BuiltNode == nodes'[Len(nodes')]
BuiltEdge(i) == edges'[Len(edges) + i]

\* httpPercentReq only for http > 0 and http / httpOut * 100 < 100, so not
\* for http = httpOut nor for httpOut = 0; httpPercentErr only for
\* (http4xx + http5xx) / http * 100 > 0.
PercentBounds(e, src, ed) ==
  LET http == RateOf(e.Metadata, "http")
      out  == RateOf(src.Metadata, "httpOut")
      err  == RateOf(e.Metadata, "http4xx") + RateOf(e.Metadata, "http5xx")
  IN  /\ Present(ed.HttpPercentReq) =>
           http > 0 /\ out # 0 /\ (out < 0 \/ http < out)
      /\ http = out => ~Present(ed.HttpPercentReq)
      /\ out = 0 => ~Present(ed.HttpPercentReq)
      /\ Present(ed.HttpPercentErr) => http # 0 /\ err * http > 0

\* C6: the percent fields of every edge buildConfig emits keep their
\* bounds, and the sorts return these edges unchanged.
C6_PercentBounds ==
  [][ /\ \A id \in BuiltIds : \A i \in 1..Len(Entry(id).Edges) :
           PercentBounds(Entry(id).Edges[i], heap[Entry(id).Edges[i].Source],
                         BuiltEdge(i))
      /\ SortKeepsRecords ]_vars

\* A returned edge whose http rate is its source's httpOut: the rate is
\* there and httpPercentReq is not.
C6_Witness ==
  /\ Returned
  /\ Len(OutEdges) = 1
  /\ Present(OutEdges[1].Http)
  /\ ~Present(OutEdges[1].HttpPercentReq)
  /\ \E k \in DOMAIN trafficMap :
       /\ Len(Entry(k).Edges) = 1
       /\ RateOf(Entry(k).Edges[1].Metadata, "http") = RateOf(Entry(k).Metadata, "httpOut")
       /\ RateOf(Entry(k).Edges[1].Metadata, "http") > 0

\* What buildConfig leaves when it returns: one node per entry of the
\* traffic map, none a group, with the hashes of the keys as Ids, and one
\* edge per graph edge.
BuildComplete ==
  /\ Len(nodes) = Cardinality(DOMAIN trafficMap)
  /\ \A i \in 1..Len(nodes) : ~IsGroupNode(nodes[i])
  /\ {nodes[i].Id : i \in 1..Len(nodes)} = {nodeHash(k) : k \in DOMAIN trafficMap}
  /\ Len(edges) = SumEdges(DOMAIN trafficMap)

\* The same counts in the returned document.
OutputComplete ==
  /\ Cardinality({i \in 1..Len(OutNodes) : ~IsGroupNode(OutNodes[i])})
       = Cardinality(DOMAIN trafficMap)
  /\ {OutNodes[i].Id : i \in {j \in 1..Len(OutNodes) : ~IsGroupNode(OutNodes[j])}}
       = {nodeHash(k) : k \in DOMAIN trafficMap}
  /\ Len(OutEdges) = SumEdges(DOMAIN trafficMap)

\* C7: buildConfig emits one node per entry of the traffic map, with the
\* hash of the entry's key as Id, and one edge per graph edge; the returned
\* document holds as many; no step changes the traffic graph.
C7_OnePerEntry ==
  [][ /\ heap' = heap
      /\ trafficMap' = trafficMap
      /\ (pc = "buildConfig" /\ pc' \notin {"buildConfig", "panic"}) => BuildComplete'
      /\ Returned' => OutputComplete' ]_vars

\* buildConfig has returned two nodes and three edges.
C7_Witness ==
  /\ pc = "sort"
  /\ Len(nodes) = 2
  /\ Len(edges) = 3
  /\ \E k \in DOMAIN trafficMap : Entry(k).ID # k

\* C8: the source and the target of every returned edge are Ids of
\* returned nodes (the code reports no structural error, so every run
\* that ends returns a document).
C8_NoDanglingEdge ==
  Returned =>
    \A i \in 1..Len(OutEdges) :
      /\ OutEdges[i].Source \in {OutNodes[j].Id : j \in 1..Len(OutNodes)}
      /\ OutEdges[i].Target \in {OutNodes[j].Id : j \in 1..Len(OutNodes)}

\* C9: a group node has the namespace and the app of each of its members,
\* and neither version nor service.
C9_GroupSharesMembers ==
  Returned =>
    \A g, i \in 1..Len(OutNodes) :
      (IsGroupNode(OutNodes[g]) /\ OutNodes[i].Parent = OutNodes[g].Id) =>
        /\ OutNodes[g].Namespace = OutNodes[i].Namespace
        /\ OutNodes[g].App = OutNodes[i].App
        /\ OutNodes[g].Version = <<>>
        /\ OutNodes[g].Service = <<>>

\* The key holds a float64 above zero.
Positive(md, k) == RateOf(md, k) > 0

\* C10 as claimed, for a node: each rate field is there exactly when its
\* own rate is above zero.
NodeRatesOwn(n, nd) ==
  /\ Present(nd.HttpIn) <=> Positive(n.Metadata, "httpIn")
  /\ Present(nd.HttpIn3xx) <=> Positive(n.Metadata, "httpIn3xx")
  /\ Present(nd.HttpIn4xx) <=> Positive(n.Metadata, "httpIn4xx")
  /\ Present(nd.HttpIn5xx) <=> Positive(n.Metadata, "httpIn5xx")
  /\ Present(nd.HttpOut) <=> Positive(n.Metadata, "httpOut")
  /\ Present(nd.TcpIn) <=> Positive(n.Metadata, "tcpIn")
  /\ Present(nd.TcpOut) <=> Positive(n.Metadata, "tcpOut")

EdgeRatesOwn(e, ed) ==
  /\ Present(ed.Http) <=> Positive(e.Metadata, "http")
  /\ Present(ed.Http3xx) <=> Positive(e.Metadata, "http3xx")
  /\ Present(ed.Http4xx) <=> Positive(e.Metadata, "http4xx")
  /\ Present(ed.Http5xx) <=> Positive(e.Metadata, "http5xx")
  /\ Present(ed.Tcp) <=> Positive(e.Metadata, "tcp")

\* C10 as amended: a status-class field also needs the total rate of its
\* record (httpIn, http) above zero.
NodeRatesUnderTotal(n, nd) ==
  /\ Present(nd.HttpIn) <=> Positive(n.Metadata, "httpIn")
  /\ Present(nd.HttpIn3xx) <=>
       Positive(n.Metadata, "httpIn3xx") /\ Positive(n.Metadata, "httpIn")
  /\ Present(nd.HttpIn4xx) <=>
       Positive(n.Metadata, "httpIn4xx") /\ Positive(n.Metadata, "httpIn")
  /\ Present(nd.HttpIn5xx) <=>
       Positive(n.Metadata, "httpIn5xx") /\ Positive(n.Metadata, "httpIn")
  /\ Present(nd.HttpOut) <=> Positive(n.Metadata, "httpOut")
  /\ Present(nd.TcpIn) <=> Positive(n.Metadata, "tcpIn")
  /\ Present(nd.TcpOut) <=> Positive(n.Metadata, "tcpOut")

EdgeRatesUnderTotal(e, ed) ==
  /\ Present(ed.Http) <=> Positive(e.Metadata, "http")
  /\ Present(ed.Http3xx) <=>
       Positive(e.Metadata, "http3xx") /\ Positive(e.Metadata, "http")
  /\ Present(ed.Http4xx) <=>
       Positive(e.Metadata, "http4xx") /\ Positive(e.Metadata, "http")
  /\ Present(ed.Http5xx) <=>
       Positive(e.Metadata, "http5xx") /\ Positive(e.Metadata, "http")
  /\ Present(ed.Tcp) <=> Positive(e.Metadata, "tcp")

\* C10 as claimed: every rate field of an emitted record is there exactly
\* when its own metadata value is above zero.
C10_EachRateOnItsOwn ==
  [][ \A id \in BuiltIds :
        /\ NodeRatesOwn(Entry(id), BuiltNode)
        /\ \A i \in 1..Len(Entry(id).Edges) :
             EdgeRatesOwn(Entry(id).Edges[i], BuiltEdge(i)) ]_vars

\* C10 as amended: the total rates and the tcp rates are there exactly when
\* their own value is above zero; a status-class rate is there exactly when
\* its own value and the total rate of its record are above zero.  The
\* sorts return the records unchanged.
C10_RatesUnderTotal ==
  [][ /\ \A id \in BuiltIds :
           /\ NodeRatesUnderTotal(Entry(id), BuiltNode)
           /\ \A i \in 1..Len(Entry(id).Edges) :
                EdgeRatesUnderTotal(Entry(id).Edges[i], BuiltEdge(i))
      /\ SortKeepsRecords ]_vars

\* A returned node with httpIn4xx above zero and no httpIn: the field
\* httpIn4XX is not there.
C10_Witness ==
  /\ Returned
  /\ \E k \in DOMAIN trafficMap :
       /\ Positive(Entry(k).Metadata, "httpIn4xx")
       /\ ~Positive(Entry(k).Metadata, "httpIn")
       /\ \E i \in 1..Len(OutNodes) :
            OutNodes[i].Id = nodeHash(k) /\ ~Present(OutNodes[i].HttpIn4xx)

====
